---- MODULE Spec2Model ----
(***************************************************************************)
(* Model of src/app.js: an Express server over a MongoDB collection of     *)
(* hostels, with a process-wide cache (hostelCache) filled once by         *)
(* prefetchHostelData after mongoose.connect resolves.                     *)
(*                                                                         *)
(* Strings are sequences of one-character strings, so that parseInt and    *)
(* parseFloat can be modelled by what they do to the characters.  The      *)
(* value undefined (an absent query parameter) is the one-element          *)
(* sequence <<"undefined">>: like String(undefined) it holds no digit.     *)
(***************************************************************************)
EXTENDS Integers, Sequences, FiniteSets, TLC

VARIABLES
    connState,    \* the promise of mongoose.connect: connecting/connected/failed
    loaderPc,     \* position of prefetchHostelData
    loadResult,   \* value of the promise of Hostel.find() awaited at line 61
    hostelCache,  \* let hostelCache = []
    store,        \* the 'hostels' collection, in natural order
    req,          \* the store-backed request being handled (its locals)
    resp          \* the last response sent

vars == <<connState, loaderPc, loadResult, hostelCache, store, req, resp>>

(* ------------------------------ bounds -------------------------------- *)

\* the collection holds at most MaxStore documents
MaxStore == 2

(* ------------------------------ strings ------------------------------- *)

Undefined == <<"undefined">>
Empty == <<>>
LowToHigh == <<"l","o","w","-","t","o","-","h","i","g","h">>
HighToLow == <<"h","i","g","h","-","t","o","-","l","o","w">>
Boys == <<"b","o","y","s">>
CoEd == <<"c","o","-","e","d">>

\* JavaScript truthiness of a query parameter: undefined and "" are falsy
Truthy(s) == s # Undefined /\ s # Empty

Digit == {"0","1","2","3","4","5","6","7","8","9"}

DigitVal(c) ==
    CASE c = "0" -> 0 [] c = "1" -> 1 [] c = "2" -> 2 [] c = "3" -> 3
      [] c = "4" -> 4 [] c = "5" -> 5 [] c = "6" -> 6 [] c = "7" -> 7
      [] c = "8" -> 8 [] c = "9" -> 9

RECURSIVE SkipWs(_)
SkipWs(s) == IF s # <<>> /\ Head(s) = " " THEN SkipWs(Tail(s)) ELSE s

\* the longest prefix of s made of digits
RECURSIVE TakeDigits(_)
TakeDigits(s) ==
    IF s # <<>> /\ Head(s) \in Digit
    THEN <<Head(s)>> \o TakeDigits(Tail(s))
    ELSE <<>>

Drop(s, n) == SubSeq(s, n + 1, Len(s))

RECURSIVE DigitsVal(_)
DigitsVal(ds) ==
    IF ds = <<>> THEN 0
    ELSE 10 * DigitsVal(SubSeq(ds, 1, Len(ds) - 1)) + DigitVal(ds[Len(ds)])

RECURSIVE Pow10(_)
Pow10(n) == IF n = 0 THEN 1 ELSE 10 * Pow10(n - 1)

NaN == [nan |-> TRUE, num |-> 0, den |-> 1]
Number(n, d) == [nan |-> FALSE, num |-> n, den |-> d]

Unsigned(t) == IF t # <<>> /\ Head(t) \in {"+", "-"} THEN Tail(t) ELSE t
Sign(t) == IF t # <<>> /\ Head(t) = "-" THEN -1 ELSE 1

\* parseInt(s): leading white space, a sign, then the longest run of decimal
\* digits; NaN when there is none.  What follows the digits is ignored.
ParseInt(s) ==
    LET t == SkipWs(s)
        ds == TakeDigits(Unsigned(t))
    IN IF ds = <<>> THEN NaN ELSE Number(Sign(t) * DigitsVal(ds), 1)

\* parseFloat(s): leading white space, a sign, digits, and a fraction; NaN
\* when neither part holds a digit.  What follows is ignored.  The value is
\* the exact rational num/den.
ParseFloat(s) ==
    LET t == SkipWs(s)
        u == Unsigned(t)
        ip == TakeDigits(u)
        r == Drop(u, Len(ip))
        fp == IF r # <<>> /\ Head(r) = "." THEN TakeDigits(Tail(r)) ELSE <<>>
    IN IF ip = <<>> /\ fp = <<>> THEN NaN
       ELSE Number(Sign(t) * (DigitsVal(ip) * Pow10(Len(fp)) + DigitsVal(fp)),
                   Pow10(Len(fp)))

\* OrDefault with only NaN replaced, as x ?? d would do for a missing value
OrDefaultNaNOnly(p, d) == IF p.nan THEN d ELSE p.num

\* x || d on the result of parseInt: NaN and 0 are falsy
OrDefault(p, d) == IF p.nan \/ p.num = 0 THEN d ELSE p.num

(* --------------------------- program constants ------------------------ *)

\* parseInt(req.query.page) || 1
DefaultPage == 1
\* parseInt(req.query.limit) || 5
DefaultLimit == 5

(* ------------------------------ documents ----------------------------- *)

\* Documents that satisfy hostelSchema: name, location and category are
\* required, category is one of the enum, rating lies in 0..5.
Hostels ==
    { [name |-> <<"a">>, location |-> <<"N","x">>, category |-> Boys, rating |-> 3],
      [name |-> <<"b">>, location |-> <<"a","n">>, category |-> CoEd, rating |-> 5] }

\* the inputs of the requests
NameParams == {<<"a">>, <<"b">>, <<"z">>}
PageParams == {Undefined, <<"0">>, <<"2">>, <<"-","1">>}
LimitParams == {Undefined, <<"0">>, <<"1">>, <<"2","x">>, <<"-","1">>, <<"x">>}
CategoryParams == {Undefined, Empty, CoEd}
RatingParams ==
    {Undefined, Empty, LowToHigh, HighToLow, <<"4">>, <<"3",".","5">>,
     <<"b","a","n","a","n","a">>, <<"5","s">>}
SearchParams == {<<"n">>, <<"A">>}

(* ----------------------- the store's operations ----------------------- *)

\* the filter {}: no category, no rating
NoQuery == [category |-> Undefined, rating |-> NaN]

\* the documents a filter { category?, rating: {$gte}? } matches
Matches(h, query) ==
    /\ query.category # Undefined => h.category = query.category
    /\ ~query.rating.nan => h.rating * query.rating.den >= query.rating.num

\* s with h inserted before the first element that must follow it
RECURSIVE InsertSorted(_, _, _)
InsertSorted(s, h, dir) ==
    IF s = <<>> THEN <<h>>
    ELSE IF dir * Head(s).rating > dir * h.rating
         THEN <<h>> \o s
         ELSE <<Head(s)>> \o InsertSorted(Tail(s), h, dir)

\* .sort({rating: dir}); dir = 0 stands for .sort({}), which sorts nothing
RECURSIVE SortByRating(_, _)
SortByRating(s, dir) ==
    IF dir = 0 \/ s = <<>> THEN s
    ELSE InsertSorted(SortByRating(SubSeq(s, 1, Len(s) - 1), dir), s[Len(s)], dir)

\* Hostel.find(query).sort(sort)
FindSorted(coll, query, dir) ==
    SortByRating(SelectSeq(coll, LAMBDA h : Matches(h, query)), dir)

Abs(n) == IF n < 0 THEN -n ELSE n
Min(a, b) == IF a < b THEN a ELSE b
Max(a, b) == IF a > b THEN a ELSE b

\* Hostel.find().skip(skip).limit(limit) for skip >= 0 (the store rejects a
\* negative skip); a negative limit is served as its absolute value
FindSkipLimit(coll, skip, limit) ==
    SubSeq(coll, skip + 1, Min(Len(coll), skip + Abs(limit)))

Lower(c) == CASE c = "N" -> "n" [] c = "A" -> "a" [] c = "X" -> "x" [] OTHER -> c

\* { $regex: q, $options: 'i' } for a q without regex metacharacters
RegexI(s, q) ==
    \E i \in 0..(Len(s) - Len(q)) :
        \A j \in 1..Len(q) : Lower(s[i + j]) = Lower(q[j])

\* Hostel.find({ $or: [{location: ...}, {name: ...}] })
FindSearch(coll, q) ==
    SelectSeq(coll, LAMBDA h : RegexI(h.location, q) \/ RegexI(h.name, q))

(* --------------------------- array operations ------------------------- *)

\* ArrayFind that starts at the second element
ArrayFindFromSecond(arr, hostelName) ==
    LET hits == {i \in 2..Len(arr) : arr[i].name = hostelName}
    IN IF hits = {} THEN <<>>
       ELSE <<arr[CHOOSE i \in hits : \A k \in hits : i <= k]>>

\* hostelCache.find(h => h.name === hostelName): the first match, here as a
\* sequence of one element, or the empty sequence for undefined
ArrayFind(arr, hostelName) ==
    LET hits == {i \in 1..Len(arr) : arr[i].name = hostelName}
    IN IF hits = {} THEN <<>>
       ELSE <<arr[CHOOSE i \in hits : \A k \in hits : i <= k]>>

\* arr.slice(0, end): a negative end counts from the end of the array
Slice0(arr, end) ==
    LET e == IF end < 0 THEN Max(Len(arr) + end, 0) ELSE Min(end, Len(arr))
    IN SubSeq(arr, 1, e)

\* CeilDiv with Math.floor in place of Math.ceil
FloorDiv(total, limit) ==
    IF limit > 0 THEN total \div limit ELSE (-total) \div (-limit)

\* Math.ceil(total / limit) for limit # 0
CeilDiv(total, limit) ==
    IF limit > 0 THEN -((-total) \div limit) ELSE -(total \div (-limit))

(* ----------------------------- the state ------------------------------ *)

NoReq ==
    [route |-> "none", pc |-> "idle", a |-> Undefined, b |-> Undefined,
     page |-> 0, limit |-> 0, skip |-> 0, total |-> 0,
     query |-> NoQuery, sort |-> 0, trips |-> 0]

NoResp ==
    [route |-> "none", a |-> Undefined, b |-> Undefined, status |-> 0,
     body |-> <<>>, totalPages |-> 0, currentPage |-> 0, limit |-> 0,
     trips |-> 0, at |-> "idle"]

Init ==
    /\ connState = "connecting"
    /\ loaderPc = "idle"
    /\ loadResult = <<>>
    /\ hostelCache = <<>>
    /\ store = <<>>
    /\ req = NoReq
    /\ resp = NoResp

(* ------------------------ writers of the store ------------------------ *)

StoreInsert(h) ==
    /\ Len(store) < MaxStore
    /\ store' = Append(store, h)
    /\ UNCHANGED <<connState, loaderPc, loadResult, hostelCache, req, resp>>

StoreDelete(i) ==
    /\ i \in 1..Len(store)
    /\ store' = SubSeq(store, 1, i - 1) \o SubSeq(store, i + 1, Len(store))
    /\ UNCHANGED <<connState, loaderPc, loadResult, hostelCache, req, resp>>

(* --------------------- connection and cache loader -------------------- *)

\* .then(() => { prefetchHostelData(); }): the call runs prefetchHostelData
\* up to its await, which issues Hostel.find()
ConnectResolve ==
    /\ connState = "connecting"
    /\ connState' = "connected"
    /\ loaderPc = "idle"
    /\ loaderPc' = "awaitFind"
    /\ UNCHANGED <<loadResult, hostelCache, store, req, resp>>

\* .catch(err => console.error(...))
ConnectReject ==
    /\ connState = "connecting"
    /\ connState' = "failed"
    /\ UNCHANGED <<loaderPc, loadResult, hostelCache, store, req, resp>>

\* the store answers Hostel.find(): the promise holds the whole collection
PrefetchFindResolve ==
    /\ loaderPc = "awaitFind"
    /\ loadResult' = store
    /\ loaderPc' = "resolved"
    /\ UNCHANGED <<connState, hostelCache, store, req, resp>>

\* PrefetchFindReject followed, later, by another attempt
PrefetchFindRejectRetry ==
    /\ \/ loaderPc = "awaitFind" /\ loaderPc' = "failed"
       \/ loaderPc = "failed" /\ loaderPc' = "awaitFind"
    /\ UNCHANGED <<connState, loadResult, hostelCache, store, req, resp>>

\* the store read fails: catch (error) logs it
PrefetchFindReject ==
    /\ loaderPc = "awaitFind"
    /\ loaderPc' = "failed"
    /\ UNCHANGED <<connState, loadResult, hostelCache, store, req, resp>>

\* PrefetchAssign that fills the cache one document at a time
PrefetchAssignPiecewise ==
    /\ loaderPc = "resolved"
    /\ IF Len(hostelCache) < Len(loadResult)
       THEN /\ hostelCache' = Append(hostelCache, loadResult[Len(hostelCache) + 1])
            /\ loaderPc' = loaderPc
       ELSE /\ hostelCache' = hostelCache
            /\ loaderPc' = "done"
    /\ UNCHANGED <<connState, loadResult, store, req, resp>>

\* the continuation of the await: hostelCache = <the result>
PrefetchAssign ==
    /\ loaderPc = "resolved"
    /\ hostelCache' = loadResult
    /\ loaderPc' = "done"
    /\ UNCHANGED <<connState, loadResult, store, req, resp>>

(* ------------------------ handlers on the cache ----------------------- *)

\* GetHostelByName that starts the cache loader again on a miss
GetHostelByNameRefresh(hostelName) ==
    LET hostel == ArrayFind(hostelCache, hostelName)
    IN /\ resp' = [NoResp EXCEPT !.route = "hostel", !.a = hostelName,
                      !.status = IF hostel # <<>> THEN 200 ELSE 404,
                      !.body = hostel, !.at = loaderPc]
       /\ loaderPc' = IF hostel = <<>> /\ loaderPc = "done"
                      THEN "awaitFind" ELSE loaderPc
       /\ UNCHANGED <<connState, loadResult, hostelCache, store, req>>

\* app.get('/hostel/:name')
GetHostelByName(hostelName) ==
    LET hostel == ArrayFind(hostelCache, hostelName)
    IN /\ resp' = [NoResp EXCEPT !.route = "hostel", !.a = hostelName,
                      !.status = IF hostel # <<>> THEN 200 ELSE 404,
                      !.body = hostel, !.at = loaderPc]
       /\ UNCHANGED <<connState, loaderPc, loadResult, hostelCache, store, req>>

\* app.get('/hostel-limit')
GetHostelLimit(limitParam) ==
    LET limit == OrDefault(ParseInt(limitParam), DefaultLimit)
    IN /\ resp' = [NoResp EXCEPT !.route = "hostel-limit", !.a = limitParam,
                      !.status = 200, !.limit = limit,
                      !.body = Slice0(hostelCache, limit), !.at = loaderPc]
       /\ UNCHANGED <<connState, loaderPc, loadResult, hostelCache, store, req>>

NextCache ==
    \/ \E h \in Hostels : StoreInsert(h)
    \/ \E i \in 1..MaxStore : StoreDelete(i)
    \/ ConnectResolve
    \/ ConnectReject
    \/ PrefetchFindResolve
    \/ PrefetchFindReject
    \/ PrefetchAssign
    \/ \E n \in NameParams : GetHostelByName(n)
    \/ \E l \in LimitParams : GetHostelLimit(l)

\* the connection, the cache loader and the handlers that read the cache
SpecCache == Init /\ [][NextCache]_vars

(* ------------------------ handlers on the store ----------------------- *)

\* app.get('/hostel-data'), up to the first await: page, limit and skip are
\* computed and Hostel.countDocuments() is issued
HostelDataRequest(pageParam, limitParam) ==
    LET page == OrDefault(ParseInt(pageParam), DefaultPage)
        limit == OrDefault(ParseInt(limitParam), DefaultLimit)
    IN /\ req.route = "none"
       /\ req' = [NoReq EXCEPT !.route = "hostel-data", !.pc = "awaitCount",
                     !.a = pageParam, !.b = limitParam,
                     !.page = page, !.limit = limit,
                     !.skip = (page - 1) * limit, !.trips = 1]
       /\ UNCHANGED <<connState, loaderPc, loadResult, hostelCache, store, resp>>

\* countDocuments() is answered; Hostel.find().skip(skip).limit(limit) is issued
HostelDataCountResolve ==
    /\ req.route = "hostel-data"
    /\ req.pc = "awaitCount"
    /\ req' = [req EXCEPT !.pc = "awaitFind", !.total = Len(store),
                  !.trips = req.trips + 1]
    /\ UNCHANGED <<connState, loaderPc, loadResult, hostelCache, store, resp>>

\* the find is answered: res.json({ totalPages, currentPage, hostels })
HostelDataFindResolve ==
    /\ req.route = "hostel-data"
    /\ req.pc = "awaitFind"
    /\ req.skip >= 0
    /\ resp' = [NoResp EXCEPT !.route = "hostel-data",
                   !.status = 200,
                   !.totalPages = CeilDiv(req.total, req.limit),
                   !.currentPage = req.page,
                   !.body = FindSkipLimit(store, req.skip, req.limit),
                   !.trips = req.trips]
    /\ req' = NoReq
    /\ UNCHANGED <<connState, loaderPc, loadResult, hostelCache, store>>

\* either await throws (the store is unreachable, or it refuses the skip):
\* catch (error) answers 500
HostelDataReject ==
    /\ req.route = "hostel-data"
    /\ resp' = [NoResp EXCEPT !.route = "hostel-data",
                   !.status = 500, !.trips = req.trips]
    /\ req' = NoReq
    /\ UNCHANGED <<connState, loaderPc, loadResult, hostelCache, store>>

\* BuildQuery that lets an unparseable rating through as no filter
BuildQueryNoValidation(category, rating) ==
    LET query == IF Truthy(category)
                 THEN [NoQuery EXCEPT !.category = category]
                 ELSE NoQuery
        parsedRating == ParseFloat(rating)
    IN IF ~Truthy(rating) THEN [ok |-> TRUE, query |-> query, sort |-> 0]
       ELSE IF rating = LowToHigh THEN [ok |-> TRUE, query |-> query, sort |-> 1]
       ELSE IF rating = HighToLow THEN [ok |-> TRUE, query |-> query, sort |-> -1]
       ELSE [ok |-> TRUE, query |-> [query EXCEPT !.rating = parsedRating],
             sort |-> 0]

\* BuildQuery with the two sort directions exchanged
BuildQuerySwapped(category, rating) ==
    LET query == IF Truthy(category)
                 THEN [NoQuery EXCEPT !.category = category]
                 ELSE NoQuery
        parsedRating == ParseFloat(rating)
    IN IF ~Truthy(rating) THEN [ok |-> TRUE, query |-> query, sort |-> 0]
       ELSE IF rating = LowToHigh THEN [ok |-> TRUE, query |-> query, sort |-> -1]
       ELSE IF rating = HighToLow THEN [ok |-> TRUE, query |-> query, sort |-> 1]
       ELSE IF ~parsedRating.nan
            THEN [ok |-> TRUE, query |-> [query EXCEPT !.rating = parsedRating],
                  sort |-> 0]
            ELSE [ok |-> FALSE, query |-> query, sort |-> 0]

\* The query and the sort that app.get('/hostels') builds from category and
\* rating; ok is FALSE where the handler returns 400.  sort is 1, -1 or 0 ({}).
BuildQuery(category, rating) ==
    LET query == IF Truthy(category)
                 THEN [NoQuery EXCEPT !.category = category]
                 ELSE NoQuery
        parsedRating == ParseFloat(rating)
    IN IF ~Truthy(rating) THEN [ok |-> TRUE, query |-> query, sort |-> 0]
       ELSE IF rating = LowToHigh THEN [ok |-> TRUE, query |-> query, sort |-> 1]
       ELSE IF rating = HighToLow THEN [ok |-> TRUE, query |-> query, sort |-> -1]
       ELSE IF ~parsedRating.nan
            THEN [ok |-> TRUE, query |-> [query EXCEPT !.rating = parsedRating],
                  sort |-> 0]
            ELSE [ok |-> FALSE, query |-> query, sort |-> 0]

\* app.get('/hostels'), up to its await or to its return of 400
HostelsRequest(category, rating) ==
    LET built == BuildQuery(category, rating)
    IN /\ req.route = "none"
       /\ IF built.ok
          THEN /\ req' = [NoReq EXCEPT !.route = "hostels", !.pc = "awaitFind",
                             !.a = category, !.b = rating,
                             !.query = built.query, !.sort = built.sort,
                             !.trips = 1]
               /\ resp' = resp
          ELSE /\ resp' = [NoResp EXCEPT !.route = "hostels", !.a = category,
                              !.b = rating, !.status = 400]
               /\ req' = req
       /\ UNCHANGED <<connState, loaderPc, loadResult, hostelCache, store>>

\* Hostel.find(query).sort(sort) is answered: res.json(filteredHostels)
HostelsFindResolve ==
    /\ req.route = "hostels"
    /\ req.pc = "awaitFind"
    /\ resp' = [NoResp EXCEPT !.route = "hostels", !.a = req.a, !.b = req.b,
                   !.status = 200,
                   !.body = FindSorted(store, req.query, req.sort),
                   !.trips = req.trips]
    /\ req' = NoReq
    /\ UNCHANGED <<connState, loaderPc, loadResult, hostelCache, store>>

\* the await throws: catch (error) answers 500
HostelsFindReject ==
    /\ req.route = "hostels"
    /\ req.pc = "awaitFind"
    /\ resp' = [NoResp EXCEPT !.route = "hostels", !.a = req.a, !.b = req.b,
                   !.status = 500, !.trips = req.trips]
    /\ req' = NoReq
    /\ UNCHANGED <<connState, loaderPc, loadResult, hostelCache, store>>

\* app.post('/search'), up to its await
SearchRequest(query) ==
    /\ req.route = "none"
    /\ req' = [NoReq EXCEPT !.route = "search", !.pc = "awaitFind",
                  !.a = query, !.trips = 1]
    /\ UNCHANGED <<connState, loaderPc, loadResult, hostelCache, store, resp>>

\* SearchFindResolve that queries the store a second time before it answers
SearchFindResolveTwice ==
    /\ req.route = "search"
    /\ req.pc = "awaitFind"
    /\ IF req.trips < 2
       THEN /\ req' = [req EXCEPT !.trips = req.trips + 1]
            /\ resp' = resp
       ELSE /\ resp' = [NoResp EXCEPT !.route = "search", !.a = req.a,
                           !.status = 200, !.body = FindSearch(store, req.a),
                           !.trips = req.trips]
            /\ req' = NoReq
    /\ UNCHANGED <<connState, loaderPc, loadResult, hostelCache, store>>

\* the find is answered: res.json(searchResults)
SearchFindResolve ==
    /\ req.route = "search"
    /\ req.pc = "awaitFind"
    /\ resp' = [NoResp EXCEPT !.route = "search", !.a = req.a, !.status = 200,
                   !.body = FindSearch(store, req.a), !.trips = req.trips]
    /\ req' = NoReq
    /\ UNCHANGED <<connState, loaderPc, loadResult, hostelCache, store>>

\* the await throws: catch (error) answers 500
SearchFindReject ==
    /\ req.route = "search"
    /\ req.pc = "awaitFind"
    /\ resp' = [NoResp EXCEPT !.route = "search", !.a = req.a, !.status = 500,
                   !.trips = req.trips]
    /\ req' = NoReq
    /\ UNCHANGED <<connState, loaderPc, loadResult, hostelCache, store>>

NextStore ==
    \/ \E h \in Hostels : StoreInsert(h)
    \/ \E i \in 1..MaxStore : StoreDelete(i)
    \/ \E p \in PageParams, l \in LimitParams : HostelDataRequest(p, l)
    \/ HostelDataCountResolve
    \/ HostelDataFindResolve
    \/ HostelDataReject
    \/ \E c \in CategoryParams, r \in RatingParams : HostelsRequest(c, r)
    \/ HostelsFindResolve
    \/ HostelsFindReject
    \/ \E q \in SearchParams : SearchRequest(q)
    \/ SearchFindResolve
    \/ SearchFindReject
    \/ \E l \in LimitParams : GetHostelLimit(l)

\* the handlers that query the store, one request at a time, with the
\* writers of the store
SpecStore == Init /\ [][NextStore]_vars

(* ====================================================================== *)
(* Properties of the cache (checked under SpecCache)                      *)
(* ====================================================================== *)

IsSyncRoute(r) == r \in {"hostel", "hostel-limit"}

\* the elements of a sequence
Range(s) == {s[i] : i \in 1..Len(s)}

\* the cache a handler read when it ran in loader phase `at`, in terms of
\* the store read alone
CacheReadAt(at) == IF at = "done" THEN loadResult ELSE <<>>

\* C1: in every reachable state hostelCache is the empty initial sequence or
\* the whole result of the one store read, and every response of
\* /hostel/:name and /hostel-limit is drawn from one of these two: nothing
\* is served from a partly filled cache.
C1_CacheEmptyOrWholeRead ==
    /\ \/ hostelCache = <<>>
       \/ loaderPc = "done" /\ hostelCache = loadResult
    /\ IsSyncRoute(resp.route) =>
           /\ Range(resp.body) \subseteq Range(CacheReadAt(resp.at))
           /\ resp.at # "done" => resp.body = <<>>

\* a loaded cache of two documents, read by a request, while the store has
\* moved on
C1_Witness ==
    /\ loaderPc = "done"
    /\ Len(hostelCache) = 2
    /\ store # hostelCache
    /\ resp.route = "hostel-limit"
    /\ resp.at = "done"
    /\ Len(resp.body) = 2

\* C2: prefetchHostelData starts only in the step in which mongoose.connect
\* resolves, and never again; hostelCache is assigned only by its one
\* continuation, and once the loader has ended nothing changes the cache,
\* whatever requests and store writes follow.
C2_LoadedOnce ==
    [][ /\ (loaderPc' = "awaitFind" /\ loaderPc # "awaitFind") =>
               (loaderPc = "idle" /\ connState = "connecting"
                   /\ connState' = "connected")
        /\ (connState = "connecting" /\ connState' = "connected") =>
               (loaderPc = "idle" /\ loaderPc' = "awaitFind")
        /\ hostelCache' # hostelCache =>
               (loaderPc = "resolved" /\ loaderPc' = "done")
        /\ loaderPc \in {"done", "failed"} =>
               (loaderPc' = loaderPc /\ hostelCache' = hostelCache)
      ]_vars

\* the cache was loaded, the store has changed since and a request was
\* served from the loaded cache
C2_Witness ==
    /\ loaderPc = "done"
    /\ hostelCache # <<>>
    /\ store = <<>>
    /\ resp.route = "hostel"
    /\ resp.at = "done"
    /\ resp.status = 200

\* C3: when the store read of prefetchHostelData fails, hostelCache stays the
\* empty initial sequence, the read is not tried again, and requests are
\* still served: /hostel/:name answers 404 and /hostel-limit answers [].
C3_LoadFailureServesEmpty ==
    /\ [](loaderPc = "failed" => hostelCache = <<>>)
    /\ [](resp.at = "failed" =>
            /\ resp.route = "hostel" => (resp.status = 404 /\ resp.body = <<>>)
            /\ resp.route = "hostel-limit" =>
                   (resp.status = 200 /\ resp.body = <<>>))
    /\ [][loaderPc = "failed" =>
              (loaderPc' = "failed" /\ hostelCache' = hostelCache)]_vars

\* after the failed load a request for a name that the store holds was
\* answered 404
C3_Witness ==
    /\ loaderPc = "failed"
    /\ resp.at = "failed"
    /\ resp.route = "hostel"
    /\ resp.status = 404
    /\ \E i \in 1..Len(store) : store[i].name = resp.a

\* C5: a /hostel/:name request handled after a successful load answers a
\* document of that exact name, taken from the store read, if and only if
\* the store held a document of that name when it was read; otherwise it
\* answers 404.  Later changes of the store play no part.
C5_LookupMatchesLoadTime ==
    (resp.route = "hostel" /\ resp.at = "done") =>
        IF \E i \in 1..Len(loadResult) : loadResult[i].name = resp.a
        THEN /\ resp.status = 200
             /\ Len(resp.body) = 1
             /\ resp.body[1].name = resp.a
             /\ resp.body[1] \in Range(loadResult)
        ELSE /\ resp.status = 404
             /\ resp.body = <<>>

\* a name answered from the loaded cache although the store no longer
\* holds it
C5_Witness ==
    /\ resp.route = "hostel"
    /\ resp.at = "done"
    /\ resp.status = 200
    /\ \A i \in 1..Len(store) : store[i].name # resp.a

\* C8 as claimed: the answer of /hostel-limit is the first `limit` entries of
\* the cache in load order, all of them when the cache holds fewer, and it
\* is never longer than `limit` (a negative limit leaves room for none).
C8_FirstLimitEntries ==
    resp.route = "hostel-limit" =>
        LET cache == CacheReadAt(resp.at)
            n == IF resp.limit < 0 THEN 0 ELSE resp.limit
        IN /\ Len(resp.body) <= n
           /\ resp.body = SubSeq(cache, 1, IF n < Len(cache) THEN n ELSE Len(cache))

(* ====================================================================== *)
(* Properties of the store-backed handlers (checked under SpecStore)      *)
(* ====================================================================== *)

Banana == <<"b","a","n","a","n","a">>

\* a rating parameter is present when the query string carries it, with
\* whatever value
Present(s) == s # Undefined

\* the whole parameter is a decimal numeral
IsNumeral(s) ==
    /\ s # Undefined
    /\ \E i \in 1..Len(s) : s[i] \in Digit
    /\ \A i \in 1..Len(s) : s[i] \in Digit \cup {"."}
    /\ Cardinality({i \in 1..Len(s) : s[i] = "."}) <= 1

\* the parameter starts with a decimal numeral (none of the inputs has
\* leading white space or a sign)
StartsWithNumeral(s) ==
    /\ s # Undefined
    /\ s # <<>>
    /\ Head(s) \in Digit

\* C4 as claimed: a /hostels request whose rating is present, is neither
\* "low-to-high" nor "high-to-low" and is not numeric is answered 400, and
\* no store query is issued for it.
C4_InvalidRatingRejected ==
    /\ (resp.route = "hostels" /\ Present(resp.b)
          /\ resp.b \notin {LowToHigh, HighToLow} /\ ~IsNumeral(resp.b)) =>
           (resp.status = 400 /\ resp.trips = 0)
    /\ (req.route = "hostels" /\ Present(req.b)
          /\ req.b \notin {LowToHigh, HighToLow}) => IsNumeral(req.b)

\* C4, amended: a /hostels request whose rating is non-empty, is neither
\* "low-to-high" nor "high-to-low" and does not start with a number is
\* answered 400 and issues no store query; and 400 is answered to no other
\* request.
C4_UnparseableRatingRejected ==
    /\ (resp.route = "hostels" /\ Present(resp.b) /\ resp.b # <<>>
          /\ resp.b \notin {LowToHigh, HighToLow}
          /\ ~StartsWithNumeral(resp.b)) =>
           (resp.status = 400 /\ resp.trips = 0 /\ resp.body = <<>>)
    /\ (req.route = "hostels" /\ Present(req.b) /\ req.b # <<>>
          /\ req.b \notin {LowToHigh, HighToLow}) => StartsWithNumeral(req.b)
    /\ (resp.route = "hostels" /\ resp.status = 400) =>
           (resp.b # <<>> /\ Present(resp.b) /\ ~StartsWithNumeral(resp.b))

\* "banana" with a category was answered 400 without a store query
C4_Witness ==
    /\ resp.route = "hostels"
    /\ resp.a = CoEd
    /\ resp.b = Banana
    /\ resp.status = 400
    /\ resp.trips = 0
    /\ req.route = "none"

\* the numerals among the inputs, and their values as fractions
NumeralValue(s) ==
    CASE s = <<"4">> -> [num |-> 4, den |-> 1]
      [] s = <<"3",".","5">> -> [num |-> 7, den |-> 2]

\* the rating filter of the query is { $gte: v.num / v.den }
RatingFilterIs(query, v) ==
    /\ ~query.rating.nan
    /\ query.rating.num * v.den = v.num * query.rating.den

NonDecreasing(s) == \A i \in 1..(Len(s) - 1) : s[i].rating <= s[i + 1].rating
NonIncreasing(s) == \A i \in 1..(Len(s) - 1) : s[i].rating >= s[i + 1].rating

\* what C7 says of the rating parameter of a request that reached the
\* store, and of the answers to the two sort tokens
RatingMapping ==
    /\ req.route = "hostels" =>
           /\ req.b = LowToHigh => (req.sort = 1 /\ req.query.rating.nan)
           /\ req.b = HighToLow => (req.sort = -1 /\ req.query.rating.nan)
           /\ IsNumeral(req.b) =>
                  (req.sort = 0 /\ RatingFilterIs(req.query, NumeralValue(req.b)))
    /\ (resp.route = "hostels" /\ resp.status = 200) =>
           /\ resp.b = LowToHigh => NonDecreasing(resp.body)
           /\ resp.b = HighToLow => NonIncreasing(resp.body)
           /\ IsNumeral(resp.b) =>
                  \A i \in 1..Len(resp.body) :
                      resp.body[i].rating * NumeralValue(resp.b).den
                          >= NumeralValue(resp.b).num

\* C7 as claimed: "low-to-high" sorts ascending and "high-to-low" descending,
\* neither with a rating filter; a numeric rating gives the filter
\* rating >= value and no sort; and a category that is present adds the
\* exact-match filter on category, together with whichever of these applies.
C7_QueryBuilderMapping ==
    /\ RatingMapping
    /\ (req.route = "hostels" /\ Present(req.a)) => req.query.category = req.a

\* C7, amended: the same, with the category filter added for a category
\* that is present and not empty, and no category filter otherwise.
C7_QueryBuilderMappingNonEmpty ==
    /\ RatingMapping
    /\ (req.route = "hostels" /\ Present(req.a) /\ req.a # <<>>) =>
           req.query.category = req.a
    /\ (req.route = "hostels" /\ (~Present(req.a) \/ req.a = <<>>)) =>
           req.query.category = Undefined
    /\ (resp.route = "hostels" /\ resp.status = 200 /\ Present(resp.a)
          /\ resp.a # <<>>) =>
           \A i \in 1..Len(resp.body) : resp.body[i].category = resp.a

\* a category and the rating 3.5 were combined in one query
C7_Witness ==
    /\ req.route = "hostels"
    /\ req.a = CoEd
    /\ req.b = <<"3",".","5">>
    /\ req.query.category = CoEd
    /\ req.query.rating.num = 35
    /\ req.query.rating.den = 10
    /\ req.sort = 0

\* the step in which /hostel-data answers 200
HostelDataAnswered ==
    /\ req.route = "hostel-data"
    /\ req.pc = "awaitFind"
    /\ req'.route = "none"
    /\ resp'.route = "hostel-data"
    /\ resp'.status = 200

AsGiven(s, default) ==
    CASE s = <<"0">> -> 0
      [] s = <<"1">> -> 1
      [] s = <<"2">> -> 2
      [] s = <<"-","1">> -> -1
      [] OTHER -> default

\* the value the code uses: zero gives way to the default, and of a
\* parameter that starts with an integer the integer is used
AsUsed(s, default) ==
    CASE s = <<"1">> -> 1
      [] s = <<"2">> -> 2
      [] s = <<"2","x">> -> 2
      [] s = <<"-","1">> -> -1
      [] OTHER -> default

\* the parameters this claim is about: absent, not numeric, or an integer
IsPlain(s) == s \in {Undefined, <<"x">>, <<"0">>, <<"1">>, <<"2">>, <<"-","1">>}

\* C9 as claimed: in /hostel-data and /hostel-limit, page and limit are 1
\* and 5 when the parameter is absent or not numeric, and a numeric
\* parameter, zero and negative numbers included, is used as given.
C9_DefaultsAndAsGiven ==
    /\ (req.route = "hostel-data" /\ IsPlain(req.a)) =>
           req.page = AsGiven(req.a, 1)
    /\ (req.route = "hostel-data" /\ IsPlain(req.b)) =>
           req.limit = AsGiven(req.b, 5)
    /\ (resp.route = "hostel-limit" /\ IsPlain(resp.a)) =>
           resp.limit = AsGiven(resp.a, 5)

\* C9, amended: page and limit are 1 and 5 when the parameter is absent, not
\* numeric or zero; a non-zero integer, negative ones included, is used as
\* given, and so is the integer a parameter starts with.
C9_DefaultsZeroIncluded ==
    /\ req.route = "hostel-data" =>
           /\ req.page = AsUsed(req.a, 1)
           /\ req.limit = AsUsed(req.b, 5)
           /\ req.skip = (req.page - 1) * req.limit
    /\ resp.route = "hostel-limit" => resp.limit = AsUsed(resp.a, 5)

\* page=0 was replaced by 1 while limit=-1 was kept
C9_Witness ==
    /\ req.route = "hostel-data"
    /\ req.a = <<"0">>
    /\ req.b = <<"-","1">>
    /\ req.page = 1
    /\ req.limit = -1

\* C10 as claimed: every handler that queries the store makes one round trip
\* per request, so that the store does not change between two store reads
\* of one request.
C10_SingleRoundTrip ==
    [][ /\ req'.trips <= 1
        /\ (req.route = "hostel-data" /\ req.pc = "awaitFind") => store' = store
      ]_vars

\* C10, amended: /hostels and /search make exactly one round trip per
\* request (/hostels none when it answers 400); /hostel-data makes two, one
\* after the other, countDocuments and then find, and answers 200 only
\* after both.
C10_RoundTripsPerRoute ==
    /\ req.route \in {"hostels", "search"} => req.trips = 1
    /\ req.route = "hostel-data" =>
           req.trips = (IF req.pc = "awaitCount" THEN 1 ELSE 2)
    /\ resp.route = "hostels" =>
           resp.trips = (IF resp.status = 400 THEN 0 ELSE 1)
    /\ resp.route = "search" => resp.trips = 1
    /\ resp.route = "hostel-data" =>
           /\ resp.trips \in {1, 2}
           /\ resp.status = 200 => resp.trips = 2

\* between the two round trips of a /hostel-data request the store changed:
\* the count no longer describes what the find will read
C10_Witness ==
    /\ req.route = "hostel-data"
    /\ req.pc = "awaitFind"
    /\ req.trips = 2
    /\ req.total # Len(store)

====
